---------------------------- MODULE Spec2Model ----------------------------
(***************************************************************************)
(* Model of claudio-plugin/skills/konflux/scripts/generate_release_yaml.py *)
(*                                                                         *)
(* A Python str is a sequence of one-character strings, so that replace,   *)
(* lower, "in" and format are computed character by character.  A Python   *)
(* value that may be None or a str is a record [t, s] (PyNone, PyStr).     *)
(* A template is a tree of nodes kept in a heap of objects, so that object *)
(* identity (sharing, mutation in place) can be stated.                    *)
(***************************************************************************)
EXTENDS Integers, Sequences, FiniteSets, TLC

VARIABLES
    \* ---- derive_prod_release_plan, called on its own
    stage_plan, prod_plan,
    \* ---- derive_variant_from_component, called on its own
    component_name, variant_out,
    \* ---- generate_release_name, called on its own
    nm_component, nm_version, release_name, prev_name,
    \* ---- "ready" before the call of the function under test, then
    \* "returned" or "raised"; calls counts the calls made
    fpc, calls,
    \* ---- the objects of the process (heap[a] is the object at address a),
    \* the template's root, the tree it was loaded as, the version and
    \* variant arguments, and what each call of
    \* apply_template_substitutions ended with
    heap, template, template0, targs, results,
    \* ---- main: where it stands, the parsed arguments, the kubectl
    \* invocations made, the fetched object, what was found at the template
    \* path, the loaded template (an address, 0 for None), the assembled
    \* document, what was printed and written, and the exit code (-1 while
    \* the process runs)
    pc, args, kubectl_calls, stage_release, template_file,
    release_notes_template, prod_release, stderr, stdout, out_file, exit_code

fvars == <<stage_plan, prod_plan, component_name, variant_out,
           nm_component, nm_version, release_name, prev_name, fpc, calls>>

tvars == <<heap, template, template0, targs, results>>

mvars == <<pc, args, kubectl_calls, stage_release, template_file,
           release_notes_template, prod_release, stderr, stdout, out_file,
           exit_code>>

vars == <<fvars, tvars, mvars>>

(***************************************************************************)
(* Strings                                                                 *)
(***************************************************************************)
\* The concatenations of at most n members of chunks.
RECURSIVE Concats(_, _)
Concats(chunks, n) ==
    IF n = 0 THEN {<< >>}
    ELSE LET prev == Concats(chunks, n - 1)
         IN  prev \cup {p \o c : p \in prev, c \in chunks}

\* "sub in s" of Python: a left-to-right scan for the first position
\* at which sub starts.
RECURSIVE str_contains(_, _)
str_contains(s, sub) ==
    IF Len(s) < Len(sub) THEN FALSE
    ELSE IF SubSeq(s, 1, Len(sub)) = sub THEN TRUE
    ELSE str_contains(Tail(s), sub)

\* s.replace(old, new) of Python for a non-empty old: every
\* non-overlapping occurrence, found scanning from the left.
RECURSIVE str_replace(_, _, _)
str_replace(s, old, new) ==
    IF Len(s) < Len(old) THEN s
    ELSE IF SubSeq(s, 1, Len(old)) = old
         THEN new \o str_replace(SubSeq(s, Len(old) + 1, Len(s)), old, new)
         ELSE <<Head(s)>> \o str_replace(Tail(s), old, new)

\* s.replace(old, new, 1): the first occurrence only.
RECURSIVE str_replace_first(_, _, _)
str_replace_first(s, old, new) ==
    IF Len(s) < Len(old) THEN s
    ELSE IF SubSeq(s, 1, Len(old)) = old
         THEN new \o SubSeq(s, Len(old) + 1, Len(s))
         ELSE <<Head(s)>> \o str_replace_first(Tail(s), old, new)

\* The ASCII letters the component names of the model are written in.
UpperOf == [c \in {"r", "o", "c", "m", "u", "d", "a", "p", "g", "i", "t",
                   "s", "y", "e"} |->
              CASE c = "r" -> "R" [] c = "o" -> "O" [] c = "c" -> "C"
                [] c = "m" -> "M" [] c = "u" -> "U" [] c = "d" -> "D"
                [] c = "a" -> "A" [] c = "p" -> "P" [] c = "g" -> "G"
                [] c = "i" -> "I" [] c = "t" -> "T" [] c = "s" -> "S"
                [] c = "y" -> "Y" [] c = "e" -> "E"]

\* One character of str.lower(): an upper-case letter becomes its
\* lower-case letter, every other character is kept.
char_lower(ch) ==
    IF \E c \in DOMAIN UpperOf : UpperOf[c] = ch
    THEN CHOOSE c \in DOMAIN UpperOf : UpperOf[c] = ch
    ELSE ch

\* s.lower()
str_lower(s) == [i \in 1..Len(s) |-> char_lower(s[i])]

(***************************************************************************)
(* derive_prod_release_plan                                                *)
(***************************************************************************)
StageSuffix == <<"-", "s", "t", "a", "g", "e">>
ProdSuffix == <<"-", "p", "r", "o", "d">>

derive_prod_release_plan_first_only(plan) ==
    str_replace_first(plan, StageSuffix, ProdSuffix)

derive_prod_release_plan(plan) ==
    str_replace(plan, StageSuffix, ProdSuffix)

(***************************************************************************)
(* derive_variant_from_component                                           *)
(***************************************************************************)
\* variant_map in insertion order, which is the order a dict iterates in.
variant_map == <<
    [pattern |-> <<"r", "o", "c", "m">>,      variant |-> <<"R", "O", "C", "m">>],
    [pattern |-> <<"c", "u", "d", "a">>,      variant |-> <<"C", "U", "D", "A">>],
    [pattern |-> <<"c", "p", "u">>,           variant |-> <<"C", "P", "U">>],
    [pattern |-> <<"g", "a", "u", "d", "i">>, variant |-> <<"G", "a", "u", "d", "i">>],
    [pattern |-> <<"t", "p", "u">>,           variant |-> <<"T", "P", "U">>],
    [pattern |-> <<"s", "p", "y", "r", "e">>, variant |-> <<"S", "p", "y", "r", "e">>] >>

Unknown == <<"U", "n", "k", "n", "o", "w", "n">>

\* The for loop over variant_map.items(), from entry i on.
RECURSIVE variant_loop(_, _)
variant_loop(component_lower, i) ==
    IF i > Len(variant_map) THEN Unknown
    ELSE IF str_contains(component_lower, variant_map[i].pattern)
         THEN variant_map[i].variant
         ELSE variant_loop(component_lower, i + 1)

derive_variant_no_lower(name) == variant_loop(name, 1)

derive_variant_from_component(name) == variant_loop(str_lower(name), 1)

(***************************************************************************)
(* generate_release_name                                                   *)
(***************************************************************************)
Dot == <<".">>
Dash == <<"-">>
ProdOne == <<"-", "p", "r", "o", "d", "-", "1">>

generate_release_name_dots_everywhere(component, version) ==
    str_replace(component \o Dash \o version, Dot, Dash) \o ProdOne

generate_release_name(component, version) ==
    LET version_dashes == str_replace(version, Dot, Dash)
    IN  component \o Dash \o version_dashes \o ProdOne

(***************************************************************************)
(* str.format(version=..., variant=...)                                    *)
(*                                                                         *)
(* The template strings of the model are written with braces, letters,     *)
(* digits and "-": none holds ".", "[", "!" or ":", so a replacement field *)
(* is a bare name between "{" and "}".                                     *)
(***************************************************************************)
LBrace == "{"
RBrace == "}"
VersionName == <<"v", "e", "r", "s", "i", "o", "n">>
VariantName == <<"v", "a", "r", "i", "a", "n", "t">>
Digits == {"0", "1", "2", "3", "4", "5", "6", "7", "8", "9"}

FormatOk(s) == [ok |-> TRUE, s |-> s, err |-> ""]
FormatError(e) == [ok |-> FALSE, s |-> << >>, err |-> e]

\* The result r of formatting the rest of the string, with the text pre
\* put before it.
format_prepend(pre, r) == IF r.ok THEN FormatOk(pre \o r.s) ELSE r

\* The first position of s that holds a brace, 0 when none does.
first_brace(s) ==
    IF \E i \in 1..Len(s) : s[i] \in {LBrace, RBrace}
    THEN CHOOSE i \in 1..Len(s) :
            /\ s[i] \in {LBrace, RBrace}
            /\ \A j \in 1..(i - 1) : s[j] \notin {LBrace, RBrace}
    ELSE 0

\* The value of the field called name: a keyword argument of the call,
\* or the error the lookup raises.
format_lookup_any(name, version, variant) ==
    IF name = VersionName THEN FormatOk(version)
    ELSE IF name = VariantName THEN FormatOk(variant)
    ELSE FormatOk(<<LBrace>> \o name \o <<RBrace>>)

format_lookup(name, version, variant) ==
    IF name = VersionName THEN FormatOk(version)
    ELSE IF name = VariantName THEN FormatOk(variant)
    ELSE IF \A i \in 1..Len(name) : name[i] \in Digits
         THEN FormatError("IndexError")
         ELSE FormatError("KeyError")

\* value.format(version=version, variant=variant), scanning s from the
\* left: "{{" and "}}" give one brace, "{name}" gives the argument called
\* name, a brace on its own is an error.
RECURSIVE str_format(_, _, _)
str_format(s, version, variant) ==
    IF s = << >> THEN FormatOk(<< >>)
    ELSE IF Head(s) = LBrace
    THEN IF Len(s) >= 2 /\ s[2] = LBrace
         THEN format_prepend(<<LBrace>>,
                  str_format(SubSeq(s, 3, Len(s)), version, variant))
         ELSE LET field == Tail(s)
                  close == first_brace(field)
              IN  IF close = 0 \/ field[close] = LBrace
                  THEN FormatError("ValueError")
                  ELSE LET val == format_lookup(SubSeq(field, 1, close - 1),
                                                version, variant)
                       IN  IF ~val.ok THEN val
                           ELSE format_prepend(val.s,
                                    str_format(SubSeq(field, close + 1, Len(field)),
                                               version, variant))
    ELSE IF Head(s) = RBrace
    THEN IF Len(s) >= 2 /\ s[2] = RBrace
         THEN format_prepend(<<RBrace>>,
                  str_format(SubSeq(s, 3, Len(s)), version, variant))
         ELSE FormatError("ValueError")
    ELSE format_prepend(<<Head(s)>>, str_format(Tail(s), version, variant))

(***************************************************************************)
(* Objects.  A tree is a record [t, s, n, keys, kids]: t is the type       *)
(* ("str", "int", "none", "list", "dict"), s the text of a str, n the      *)
(* number of an int, keys the keys of a dict in insertion order, kids the  *)
(* items of a list or the values of a dict, in order.  An object of the    *)
(* heap is the same record with the addresses of its kids.                 *)
(***************************************************************************)
PyStrT(s) == [t |-> "str", s |-> s, n |-> 0, keys |-> << >>, kids |-> << >>]
PyIntT(n) == [t |-> "int", s |-> << >>, n |-> n, keys |-> << >>, kids |-> << >>]
PyNoneT == [t |-> "none", s |-> << >>, n |-> 0, keys |-> << >>, kids |-> << >>]
PyListT(kids) == [t |-> "list", s |-> << >>, n |-> 0, keys |-> << >>, kids |-> kids]
PyDictT(keys, kids) == [t |-> "dict", s |-> << >>, n |-> 0, keys |-> keys, kids |-> kids]

\* yaml.safe_load building the objects of a document: the kids first, then
\* the object that holds them.  Gives the heap and the address of the root.
RECURSIVE construct(_, _)
RECURSIVE construct_kids(_, _)
construct_kids(h, kids) ==
    IF kids = << >> THEN [h |-> h, as |-> << >>]
    ELSE LET first == construct(h, Head(kids))
             rest == construct_kids(first.h, Tail(kids))
         IN  [h |-> rest.h, as |-> <<first.a>> \o rest.as]

construct(h, tree) ==
    LET k == construct_kids(h, tree.kids)
    IN  [h |-> Append(k.h, [tree EXCEPT !.kids = k.as]), a |-> Len(k.h) + 1]

\* The tree that the object at address a is the root of.
RECURSIVE tree_of(_, _)
tree_of(h, a) ==
    [h[a] EXCEPT !.kids = [i \in 1..Len(h[a].kids) |-> tree_of(h, h[a].kids[i])]]

\* The addresses of the objects reachable from a, a included.
RECURSIVE reachable(_, _)
reachable(h, a) ==
    {a} \cup UNION { reachable(h, h[a].kids[i]) : i \in 1..Len(h[a].kids) }

(***************************************************************************)
(* apply_template_substitutions                                            *)
(***************************************************************************)
SubstOk(h, a) == [ok |-> TRUE, h |-> h, a |-> a, err |-> ""]
SubstError(h, e) == [ok |-> FALSE, h |-> h, a |-> 0, err |-> e]

RECURSIVE substitute(_, _, _, _)

\* [substitute(item) for item in value], and the values of
\* {k: substitute(v) for k, v in value.items()}: the items in order, the
\* first that raises ending the comprehension.
RECURSIVE substitute_items(_, _, _, _)
substitute_items(h, kids, version, variant) ==
    IF kids = << >> THEN [ok |-> TRUE, h |-> h, as |-> << >>, err |-> ""]
    ELSE LET first == substitute(h, Head(kids), version, variant)
         IN  IF ~first.ok
             THEN [ok |-> FALSE, h |-> first.h, as |-> << >>, err |-> first.err]
             ELSE LET rest == substitute_items(first.h, Tail(kids), version, variant)
                  IN  [rest EXCEPT !.as = IF rest.ok THEN <<first.a>> \o rest.as
                                          ELSE << >>]

\* substitute with the containers rewritten in place instead of rebuilt.
substitute_in_place(h, a, version, variant) ==
    LET value == h[a]
    IN  IF value.t = "str"
        THEN LET r == str_format(value.s, version, variant)
             IN  IF r.ok THEN SubstOk(Append(h, PyStrT(r.s)), Len(h) + 1)
                 ELSE SubstError(h, r.err)
        ELSE IF value.t \in {"list", "dict"}
        THEN LET r == substitute_items(h, value.kids, version, variant)
             IN  IF r.ok
                 THEN SubstOk([r.h EXCEPT ![a].kids = r.as], a)
                 ELSE SubstError(r.h, r.err)
        ELSE SubstOk(h, a)

\* substitute with the items of a list taken last to first.
substitute_reversed(h, a, version, variant) ==
    LET value == h[a]
        rev(q) == [i \in 1..Len(q) |-> q[Len(q) + 1 - i]]
    IN  IF value.t = "str"
        THEN LET r == str_format(value.s, version, variant)
             IN  IF r.ok THEN SubstOk(Append(h, PyStrT(r.s)), Len(h) + 1)
                 ELSE SubstError(h, r.err)
        ELSE IF value.t \in {"list", "dict"}
        THEN LET r == substitute_items(h, rev(value.kids), version, variant)
             IN  IF r.ok
                 THEN SubstOk(Append(r.h, [value EXCEPT !.kids = r.as]),
                              Len(r.h) + 1)
                 ELSE SubstError(r.h, r.err)
        ELSE SubstOk(h, a)

\* The inner function substitute(value) on the object at address a: a str
\* is formatted into a new str, a list and a dict are rebuilt as a new
\* object from their substituted items (a dict under the same keys), any
\* other object is returned as it is.
substitute(h, a, version, variant) ==
    LET value == h[a]
    IN  IF value.t = "str"
        THEN LET r == str_format(value.s, version, variant)
             IN  IF r.ok THEN SubstOk(Append(h, PyStrT(r.s)), Len(h) + 1)
                 ELSE SubstError(h, r.err)
        ELSE IF value.t \in {"list", "dict"}
        THEN LET r == substitute_items(h, value.kids, version, variant)
             IN  IF r.ok
                 THEN SubstOk(Append(r.h, [value EXCEPT !.kids = r.as]),
                              Len(r.h) + 1)
                 ELSE SubstError(r.h, r.err)
        ELSE SubstOk(h, a)

apply_template_substitutions(h, a, version, variant) ==
    substitute(h, a, version, variant)

\* The texts the templates of the model are written with.
Txt_plain == <<"a", "b">>
Txt_version == <<"{", "v", "e", "r", "s", "i", "o", "n", "}">>
Txt_both == <<"{", "v", "e", "r", "s", "i", "o", "n", "}", "-",
              "{", "v", "a", "r", "i", "a", "n", "t", "}">>
Txt_accelerator == <<"{", "a", "c", "c", "e", "l", "e", "r", "a", "t", "o", "r", "}">>
Txt_escaped == <<"{", "{", "a", "}", "}">>
Txt_stray == <<"a", "}">>

\* ---- the variables of the functions called on their own, at rest
NoStr == << >>

PlanIdle == stage_plan = NoStr /\ prod_plan = NoStr
VariantIdle == component_name = NoStr /\ variant_out = NoStr
NameIdle ==
    /\ nm_component = NoStr /\ nm_version = NoStr
    /\ release_name = NoStr /\ prev_name = NoStr
TemplateIdle ==
    /\ heap = << >> /\ template = 0 /\ template0 = PyNoneT
    /\ targs = [version |-> NoStr, variant |-> NoStr]
    /\ results = << >>

(***************************************************************************)
(* main: the stage-release workflow                                        *)
(*                                                                         *)
(* A value read from the stage release is a record [t, s]: Absent (the key *)
(* is not there), PyNone (JSON null) or PyStr(text).  What a function ends *)
(* with is a record [kind, ...]: "return", "exit" (sys.exit) or "raise"    *)
(* (an exception nothing catches, which ends the process with a traceback  *)
(* on stderr and exit code 1).                                             *)
(***************************************************************************)
Absent == [t |-> "absent", s |-> << >>]
PyNone == [t |-> "none", s |-> << >>]
PyStr(s) == [t |-> "str", s |-> s]

\* dict.get(key): None for a key that is not there.
dict_get(v) == IF v.t = "absent" THEN PyNone ELSE v

\* "not value" for a value that is None or a str.
falsy(v) == v.t \in {"absent", "none"} \/ (v.t = "str" /\ v.s = << >>)

\* bool(object at address a), None being address 0.
truthy(h, a) ==
    IF a = 0 THEN FALSE
    ELSE CASE h[a].t = "none" -> FALSE
           [] h[a].t = "str" -> h[a].s # << >>
           [] h[a].t = "int" -> h[a].n # 0
           [] OTHER -> h[a].kids # << >>

DefaultGracePeriod == 365
ExitFailure == 1

\* ---- run_kubectl.  out is what the subprocess did: kind "completed" with
\* its rc, stdout (obj, valid_json) and stderr, or kind "oserror" when
\* kubectl could not be started.
run_kubectl_ignoring_status(out) ==
    IF out.kind = "oserror"
    THEN [kind |-> "raise", err |-> "FileNotFoundError", msgs |-> << >>]
    ELSE [kind |-> "return", err |-> "", msgs |-> << >>]

run_kubectl(out) ==
    IF out.kind = "oserror"
    THEN [kind |-> "raise", err |-> "FileNotFoundError", msgs |-> << >>]
    ELSE IF out.rc # 0
    THEN [kind |-> "exit", err |-> "",
          msgs |-> << <<"Error running kubectl: ", out.stderr>> >>]
    ELSE [kind |-> "return", err |-> "", msgs |-> << >>]

\* The command get_stage_release builds.
kubectl_cmd(release_name_arg, namespace) ==
    <<"get", "release", release_name_arg, "-o", "json">>
        \o (IF namespace # "" THEN <<"-n", namespace>> ELSE << >>)

\* get_stage_release: run_kubectl, then json.loads of its output.
get_stage_release(out) ==
    LET r == run_kubectl(out)
    IN  IF r.kind # "return" THEN r
        ELSE IF ~out.valid_json
        THEN [kind |-> "raise", err |-> "JSONDecodeError", msgs |-> << >>]
        ELSE r

\* ---- load_release_notes_template.  file is what is at the template
\* path: kind "missing", "unreadable", "bad_yaml", or "yaml" with the tree
\* the document stands for (PyNoneT for an empty document).  The result is
\* the address of the loaded object, 0 for None.
load_release_notes_template(h, file) ==
    CASE file.kind = "missing" ->
            [kind |-> "return", h |-> h, a |-> 0, err |-> "", msgs |-> << >>]
      [] file.kind = "bad_yaml" ->
            [kind |-> "exit", h |-> h, a |-> 0, err |-> "",
             msgs |-> << <<"Error: Invalid YAML in template: ", "YAMLError">> >>]
      [] file.kind = "unreadable" ->
            [kind |-> "raise", h |-> h, a |-> 0, err |-> "OSError", msgs |-> << >>]
      [] OTHER ->
            IF file.tree = PyNoneT
            THEN [kind |-> "return", h |-> h, a |-> 0, err |-> "", msgs |-> << >>]
            ELSE LET c == construct(h, file.tree)
                 IN  [kind |-> "return", h |-> c.h, a |-> c.a, err |-> "",
                      msgs |-> << >>]

\* ---- generate_prod_release_yaml
NoDoc ==
    [apiVersion |-> "", kind |-> "",
     metadata |-> [keys |-> << >>, namespace |-> Absent, name |-> Absent],
     spec |-> [keys |-> << >>, snapshot |-> Absent, releasePlan |-> Absent,
               gracePeriodDays |-> 0,
               data |-> [keys |-> << >>, releaseNotes |-> 0]]]

GenResult(kind, h, doc, err, msgs) ==
    [kind |-> kind, h |-> h, doc |-> doc, err |-> err, msgs |-> msgs]

generate_prod_release_yaml_no_snapshot_check(h, sr, version, tmpl, grace_period) ==
    IF ~sr.has_metadata \/ ~sr.has_spec
    THEN GenResult("raise", h, NoDoc, "KeyError", << >>)
    ELSE IF sr.labels = "null"
    THEN GenResult("raise", h, NoDoc, "AttributeError", << >>)
    ELSE IF falsy(dict_get(sr.component))
    THEN GenResult("exit", h, NoDoc, "",
             << <<"Error: Component label not found in stage release", "">> >>)
    ELSE IF dict_get(sr.releasePlan).t # "str"
    THEN GenResult("raise", h, NoDoc, "AttributeError", << >>)
    ELSE GenResult("return", h,
             [apiVersion |-> "appstudio.redhat.com/v1alpha1",
              kind |-> "Release",
              metadata |-> [keys |-> <<"namespace", "name">>,
                            namespace |-> dict_get(sr.namespace),
                            name |-> PyStr(generate_release_name(
                                        dict_get(sr.component).s, version))],
              spec |-> [keys |-> <<"snapshot", "releasePlan", "gracePeriodDays">>,
                        snapshot |-> dict_get(sr.snapshot),
                        releasePlan |-> PyStr(derive_prod_release_plan(
                                                dict_get(sr.releasePlan).s)),
                        gracePeriodDays |-> grace_period,
                        data |-> [keys |-> << >>, releaseNotes |-> 0]]],
             "", << >>)

generate_prod_release_yaml(h, sr, version, tmpl, grace_period) ==
    IF ~sr.has_metadata \/ ~sr.has_spec
    THEN GenResult("raise", h, NoDoc, "KeyError", << >>)
    ELSE IF sr.labels = "null"
    THEN GenResult("raise", h, NoDoc, "AttributeError", << >>)
    ELSE LET component == dict_get(sr.component)
             snapshot == dict_get(sr.snapshot)
             namespace == dict_get(sr.namespace)
             plan == dict_get(sr.releasePlan)
         IN
    IF falsy(component)
    THEN GenResult("exit", h, NoDoc, "",
             << <<"Error: Component label not found in stage release", "">> >>)
    ELSE IF falsy(snapshot)
    THEN GenResult("exit", h, NoDoc, "",
             << <<"Error: Snapshot not found in stage release spec", "">> >>)
    ELSE IF plan.t # "str"
    \* derive_prod_release_plan(None): None has no replace
    THEN GenResult("raise", h, NoDoc, "AttributeError", << >>)
    ELSE LET variant == derive_variant_from_component(component.s)
             prod_release_plan == derive_prod_release_plan(plan.s)
             name == generate_release_name(component.s, version)
             doc ==
                 [apiVersion |-> "appstudio.redhat.com/v1alpha1",
                  kind |-> "Release",
                  metadata |-> [keys |-> <<"namespace", "name">>,
                                namespace |-> namespace,
                                name |-> PyStr(name)],
                  spec |-> [keys |-> <<"snapshot", "releasePlan", "gracePeriodDays">>,
                            snapshot |-> snapshot,
                            releasePlan |-> PyStr(prod_release_plan),
                            gracePeriodDays |-> grace_period,
                            data |-> [keys |-> << >>, releaseNotes |-> 0]]]
         IN
    IF ~truthy(h, tmpl)
    THEN GenResult("return", h, doc, "", << >>)
    ELSE LET notes == apply_template_substitutions(h, tmpl, version, variant)
         IN  IF ~notes.ok
             THEN GenResult("raise", notes.h, NoDoc, notes.err, << >>)
             ELSE GenResult("return", notes.h,
                      [doc EXCEPT
                          !.spec.keys = Append(@, "data"),
                          !.spec.data = [keys |-> <<"releaseNotes">>,
                                         releaseNotes |-> notes.a]],
                      "", << >>)

\* ---- what main meets outside the process
Name_cuda == <<"i", "m", "g", "-", "C", "u", "d", "a">>
Name_plain == <<"i", ".", "x">>
Snap == <<"s", "n", "a", "p">>
Ns == <<"n", "s">>
Plan_stage == <<"p", "-", "s", "t", "a", "g", "e">>
Plan_other == <<"p", "l", "a", "n">>

\* The objects kubectl may print for the release.
StageMetadata ==
    { [has_metadata |-> FALSE, labels |-> "absent", component |-> Absent,
       namespace |-> Absent] }
    \cup { [has_metadata |-> TRUE, labels |-> l, component |-> Absent,
            namespace |-> n] :
              l \in {"absent", "null"}, n \in {Absent, PyStr(Ns)} }
    \cup { [has_metadata |-> TRUE, labels |-> "dict", component |-> c,
            namespace |-> n] :
              c \in {Absent, PyStr(<< >>), PyStr(Name_cuda), PyStr(Name_plain)},
              n \in {Absent, PyStr(Ns)} }

StageSpec ==
    { [has_spec |-> FALSE, snapshot |-> Absent, releasePlan |-> Absent] }
    \cup { [has_spec |-> TRUE, snapshot |-> s, releasePlan |-> p] :
              s \in {Absent, PyStr(<< >>), PyStr(Snap)},
              p \in {Absent, PyStr(Plan_stage), PyStr(Plan_other)} }

StageReleases ==
    { [fetched |-> TRUE, has_metadata |-> m.has_metadata, labels |-> m.labels,
       component |-> m.component, namespace |-> m.namespace,
       has_spec |-> s.has_spec, snapshot |-> s.snapshot,
       releasePlan |-> s.releasePlan] : m \in StageMetadata, s \in StageSpec }

\* stage_release before get_stage_release has returned.
NoStageRelease ==
    [fetched |-> FALSE, has_metadata |-> FALSE, labels |-> "absent", component |-> Absent,
     namespace |-> Absent, has_spec |-> FALSE, snapshot |-> Absent,
     releasePlan |-> Absent]

\* What the kubectl subprocess may do.
KubectlOutcomes ==
    { [kind |-> "oserror", rc |-> 0, valid_json |-> FALSE,
       obj |-> NoStageRelease, stderr |-> ""] }
    \cup { [kind |-> "completed", rc |-> 1, valid_json |-> FALSE,
            obj |-> NoStageRelease, stderr |-> e] :
              e \in {"NotFound", "Forbidden"} }
    \cup { [kind |-> "completed", rc |-> 0, valid_json |-> FALSE,
            obj |-> NoStageRelease, stderr |-> ""] }
    \cup { [kind |-> "completed", rc |-> 0, valid_json |-> TRUE,
            obj |-> o, stderr |-> ""] : o \in StageReleases }

\* What may be at the template path.
TemplateDocuments ==
    { PyNoneT, PyDictT(<< >>, << >>), PyListT(<< >>), PyStrT(<< >>),
      PyDictT(<< <<"k">> >>, << PyStrT(Txt_both) >>),
      PyListT(<< PyStrT(Txt_plain), PyIntT(7) >>),
      PyListT(<< PyStrT(Txt_accelerator) >>) }

TemplateFiles ==
    { [kind |-> k, tree |-> PyNoneT] : k \in {"missing", "unreadable", "bad_yaml"} }
    \cup { [kind |-> "yaml", tree |-> t] : t \in TemplateDocuments }

NoFile == [kind |-> "none", tree |-> PyNoneT]

\* The parsed command line: --output is None ("none"), "" or a path.
Args ==
    { [stage_release |-> "rel-1", version |-> v, namespace |-> n,
       release_notes_template |-> ".konflux/release_notes.yaml",
       grace_period |-> g, output |-> o] :
          v \in { <<"3", ".", "2", ".", "0">>, <<"1">> },
          n \in {"", "ai-tenant"},
          g \in {DefaultGracePeriod},
          o \in {"none", "", "release.yaml"} }

MainIdle ==
    /\ pc = "idle" /\ args = [output |-> "none"]
    /\ kubectl_calls = << >> /\ stage_release = NoStageRelease
    /\ template_file = NoFile /\ release_notes_template = 0
    /\ prod_release = NoDoc
    /\ stderr = << >> /\ stdout = << >> /\ out_file = << >>
    /\ exit_code = -1

\* ---- main
Init ==
    /\ pc = "fetch"
    /\ args \in Args
    /\ kubectl_calls = << >>
    /\ stage_release = NoStageRelease
    /\ template_file = NoFile
    /\ release_notes_template = 0
    /\ prod_release = NoDoc
    /\ heap = << >>
    /\ stderr = << >> /\ stdout = << >> /\ out_file = << >>
    /\ exit_code = -1
    /\ PlanIdle /\ VariantIdle /\ NameIdle
    /\ fpc = "idle" /\ calls = 0
    /\ template = 0 /\ template0 = PyNoneT
    /\ targs = [version |-> NoStr, variant |-> NoStr]
    /\ results = << >>

\* An exception nothing catches: the traceback, then exit code 1.
Traceback(err) == <<"Traceback (most recent call last)", err>>

\* sys.exit(code) after msgs were printed, or the end by a traceback.
Terminate(r) ==
    /\ stderr' = stderr \o (IF r.kind = "raise" THEN <<Traceback(r.err)>> ELSE r.msgs)
    /\ exit_code' = ExitFailure
    /\ pc' = "exit"

\* stage_release = get_stage_release(args.stage_release, args.namespace)
FetchStageRelease ==
    /\ pc = "fetch"
    /\ \E out \in KubectlOutcomes :
          LET r == get_stage_release(out)
          IN  /\ kubectl_calls' =
                    Append(kubectl_calls,
                           [cmd |-> kubectl_cmd(args.stage_release, args.namespace),
                            kind |-> out.kind, rc |-> out.rc,
                            stderr |-> out.stderr])
              /\ IF r.kind = "return"
                 THEN /\ stage_release' = out.obj
                      /\ pc' = "load"
                      /\ UNCHANGED <<stderr, exit_code>>
                 ELSE /\ Terminate(r)
                      /\ UNCHANGED stage_release
    /\ UNCHANGED <<args, template_file, release_notes_template, prod_release,
                   heap, stdout, out_file, fvars, template, template0, targs,
                   results>>

\* release_notes_template = load_release_notes_template(...), and the
\* warning when it is None.
LoadTemplate ==
    /\ pc = "load"
    /\ \E file \in TemplateFiles :
          LET r == load_release_notes_template(heap, file)
          IN  /\ template_file' = file
              /\ heap' = r.h
              /\ IF r.kind = "return"
                 THEN /\ release_notes_template' = r.a
                      /\ stderr' = stderr \o
                            (IF r.a = 0
                             THEN << <<"Warning: Release notes template not found at ",
                                       args.release_notes_template>>,
                                     <<"         Generating release without releaseNotes section",
                                       "">> >>
                             ELSE << >>)
                      /\ pc' = "generate"
                      /\ UNCHANGED exit_code
                 ELSE /\ Terminate(r)
                      /\ UNCHANGED release_notes_template
    /\ UNCHANGED <<args, kubectl_calls, stage_release, prod_release, stdout,
                   out_file, fvars, template, template0, targs, results>>

\* prod_release = generate_prod_release_yaml(...)
GenerateProdRelease ==
    /\ pc = "generate"
    /\ LET r == generate_prod_release_yaml(heap, stage_release, args.version,
                                           release_notes_template,
                                           args.grace_period)
       IN  /\ heap' = r.h
           /\ IF r.kind = "return"
              THEN /\ prod_release' = r.doc
                   /\ pc' = "output"
                   /\ UNCHANGED <<stderr, exit_code>>
              ELSE /\ Terminate(r)
                   /\ UNCHANGED prod_release
    /\ UNCHANGED <<args, kubectl_calls, stage_release, template_file,
                   release_notes_template, stdout, out_file, fvars, template,
                   template0, targs, results>>

\* yaml.dump and the output: to the file and four lines on stderr, or to
\* stdout.  The emitted text is kept as the document it serializes.
Output ==
    /\ pc = "output"
    /\ IF args.output \notin {"none", ""}
       THEN \/ /\ out_file' = <<prod_release>>
               /\ stderr' = stderr \o
                     << <<"Generated: ", args.output>>,
                        <<"  Component: ", "spec.releasePlan">>,
                        <<"  Snapshot: ", "spec.snapshot">>,
                        <<"  Release: ", "metadata.name">> >>
               /\ exit_code' = 0
               /\ pc' = "done"
               /\ UNCHANGED stdout
            \/ \* open(args.output, 'w') fails
               /\ Terminate([kind |-> "raise", err |-> "OSError", msgs |-> << >>])
               /\ UNCHANGED <<stdout, out_file>>
       ELSE /\ stdout' = Append(stdout, prod_release)
            /\ exit_code' = 0
            /\ pc' = "done"
            /\ UNCHANGED <<stderr, out_file>>
    /\ UNCHANGED <<args, kubectl_calls, stage_release, template_file,
                   release_notes_template, prod_release, heap, fvars, template,
                   template0, targs, results>>

Next == FetchStageRelease \/ LoadTemplate \/ GenerateProdRelease \/ Output

Spec == Init /\ [][Next]_vars

(***************************************************************************)
(* The functions called on their own.  Each specification draws the        *)
(* arguments of one function and calls it; the variables of the others     *)
(* rest.                                                                   *)
(***************************************************************************)
MaxPlanParts == 3
MaxComponentParts == 3
MaxNameParts == 3
MaxCalls == 2
MaxNodes == 3

\* ---- derive_prod_release_plan
PlanChunks ==
    { StageSuffix, ProdSuffix, <<"b", "a", "s", "e">>, <<"-">>,
      <<"s", "t", "a", "g", "e">>, <<"-", "s", "t", "a", "g">>, <<"e">>,
      <<"d">> }
PlanStrings == Concats(PlanChunks, MaxPlanParts)

InitPlan ==
    /\ stage_plan \in PlanStrings
    /\ prod_plan = NoStr
    /\ fpc = "ready" /\ calls = 0
    /\ VariantIdle /\ NameIdle /\ TemplateIdle /\ MainIdle

CallPlan ==
    /\ fpc = "ready"
    /\ prod_plan' = derive_prod_release_plan(stage_plan)
    /\ fpc' = "returned"
    /\ calls' = calls + 1
    /\ UNCHANGED <<stage_plan, component_name, variant_out, nm_component,
                   nm_version, release_name, prev_name, tvars, mvars>>

NextPlan == CallPlan

SpecPlan == InitPlan /\ [][NextPlan]_vars

\* ---- derive_variant_from_component
ComponentChunks ==
    { <<"r", "o", "c", "m">>, <<"c", "u", "d", "a">>, <<"c", "p", "u">>,
      <<"g", "a", "u", "d", "i">>, <<"t", "p", "u">>,
      <<"s", "p", "y", "r", "e">>, <<"R", "o", "C", "m">>, <<"T", "P", "U">>,
      <<"G", "a", "u", "d", "i">>, <<"c">>, <<"p", "u">>, <<"-">> }
ComponentStrings == Concats(ComponentChunks, MaxComponentParts)

InitVariant ==
    /\ component_name \in ComponentStrings
    /\ variant_out = NoStr
    /\ fpc = "ready" /\ calls = 0
    /\ PlanIdle /\ NameIdle /\ TemplateIdle /\ MainIdle

CallVariant ==
    /\ fpc = "ready"
    /\ variant_out' = derive_variant_from_component(component_name)
    /\ fpc' = "returned"
    /\ calls' = calls + 1
    /\ UNCHANGED <<stage_plan, prod_plan, component_name, nm_component,
                   nm_version, release_name, prev_name, tvars, mvars>>

NextVariant == CallVariant

SpecVariant == InitVariant /\ [][NextVariant]_vars

\* ---- generate_release_name, called MaxCalls times with the same
\* arguments: prev_name is the name the call before returned.
NameComponentChunks == { <<"i", "m", "g">>, <<".">>, <<"-">> }
NameVersionChunks == { <<"3">>, <<".">>, <<"0">> }
NameComponents == Concats(NameComponentChunks, MaxNameParts)
NameVersions == Concats(NameVersionChunks, MaxNameParts)

InitName ==
    /\ nm_component \in NameComponents
    /\ nm_version \in NameVersions
    /\ release_name = NoStr /\ prev_name = NoStr
    /\ fpc = "ready" /\ calls = 0
    /\ PlanIdle /\ VariantIdle /\ TemplateIdle /\ MainIdle

CallName ==
    /\ calls < MaxCalls
    /\ release_name' = generate_release_name(nm_component, nm_version)
    /\ prev_name' = release_name
    /\ fpc' = "returned"
    /\ calls' = calls + 1
    /\ UNCHANGED <<stage_plan, prod_plan, component_name, variant_out,
                   nm_component, nm_version, tvars, mvars>>

NextName == CallName

SpecName == InitName /\ [][NextName]_vars

\* ---- apply_template_substitutions, called MaxCalls times on the same
\* template with the same version and variant.
LeafTrees ==
    { PyStrT(Txt_plain), PyStrT(Txt_version), PyStrT(Txt_both),
      PyStrT(Txt_accelerator), PyStrT(Txt_escaped), PyStrT(Txt_stray),
      PyIntT(7), PyNoneT }

\* The keys of a dict of n values, in one of two insertion orders.
KeyNames == << <<"k">>, Txt_accelerator, Txt_version, <<"z">>, <<"m">>, <<"b">> >>
KeyOrders(n) ==
    { [i \in 1..n |-> KeyNames[i]], [i \in 1..n |-> KeyNames[n + 1 - i]] }

\* The trees of exactly k nodes, and the sequences of trees of k nodes in
\* all.
RECURSIVE TreesOfSize(_)
RECURSIVE ForestsOfSize(_)
TreesOfSize(k) ==
    IF k = 1 THEN LeafTrees \cup {PyListT(<< >>), PyDictT(<< >>, << >>)}
    ELSE LET fs == { f \in ForestsOfSize(k - 1) : Len(f) <= Len(KeyNames) }
         IN  {PyListT(f) : f \in fs}
             \cup UNION { {PyDictT(ks, f) : ks \in KeyOrders(Len(f))} : f \in fs }

ForestsOfSize(k) ==
    IF k = 0 THEN {<< >>}
    ELSE UNION { { <<t>> \o f : t \in TreesOfSize(j), f \in ForestsOfSize(k - j) }
                 : j \in 1..k }

Trees == UNION { TreesOfSize(k) : k \in 1..MaxNodes }

TemplateArgs ==
    { [version |-> <<"3", ".", "2">>, variant |-> <<"C", "U", "D", "A">>],
      [version |-> <<"{", "v", "a", "r", "i", "a", "n", "t", "}">>,
       variant |-> Unknown] }

InitTemplate ==
    /\ template0 \in Trees
    /\ heap = construct(<< >>, template0).h
    /\ template = construct(<< >>, template0).a
    /\ targs \in TemplateArgs
    /\ results = << >>
    /\ fpc = "ready" /\ calls = 0
    /\ PlanIdle /\ VariantIdle /\ NameIdle /\ MainIdle

CallApply ==
    /\ calls < MaxCalls
    /\ LET r == apply_template_substitutions(heap, template, targs.version,
                                             targs.variant)
       IN  /\ heap' = r.h
           /\ results' = Append(results, [ok |-> r.ok, a |-> r.a, err |-> r.err])
           /\ fpc' = IF r.ok THEN "returned" ELSE "raised"
    /\ calls' = calls + 1
    /\ UNCHANGED <<stage_plan, prod_plan, component_name, variant_out,
                   nm_component, nm_version, release_name, prev_name,
                   template, template0, targs, mvars>>

NextTemplate == CallApply

SpecTemplate == InitTemplate /\ [][NextTemplate]_vars

(***************************************************************************)
(* Claims about the derivation functions                                   *)
(***************************************************************************)
\* The positions of stage_plan at which "-stage" starts.  Two of them
\* never overlap: "-" is the first character of "-stage" only.
StageOccurrences ==
    { i \in 1..Len(stage_plan) :
        /\ i + Len(StageSuffix) - 1 <= Len(stage_plan)
        /\ SubSeq(stage_plan, i, i + Len(StageSuffix) - 1) = StageSuffix }

OccurrencesBefore(i) == Cardinality({ j \in StageOccurrences : j < i })

InOccurrence(i) ==
    \E j \in StageOccurrences : j <= i /\ i <= j + Len(StageSuffix) - 1

MinOf(S) == CHOOSE m \in S : \A x \in S : m <= x

\* stage_plan with the first "-stage" alone replaced, stated by position.
FirstOnlyReplaced ==
    IF StageOccurrences = {} THEN stage_plan
    ELSE LET j == MinOf(StageOccurrences)
         IN  SubSeq(stage_plan, 1, j - 1) \o ProdSuffix
             \o SubSeq(stage_plan, j + Len(StageSuffix), Len(stage_plan))

\* C2 (as stated): derive_prod_release_plan(p) is p with only the first
\* occurrence of "-stage" replaced by "-prod", later occurrences kept, and
\* p itself when p holds no "-stage".
C2_FirstOccurrenceOnly ==
    fpc = "returned" => prod_plan = FirstOnlyReplaced

\* C2 (amended): derive_prod_release_plan(p) is p with every occurrence of
\* "-stage" replaced by "-prod": each occurrence becomes "-prod", every
\* character outside the occurrences is kept in order, nothing else is
\* added, and p without "-stage" is returned unchanged.
C2_EveryOccurrenceReplaced ==
    fpc = "returned" =>
        /\ Len(prod_plan) = Len(stage_plan) - Cardinality(StageOccurrences)
        /\ \A i \in 1..Len(stage_plan) :
              ~InOccurrence(i) =>
                  prod_plan[i - OccurrencesBefore(i)] = stage_plan[i]
        /\ \A j \in StageOccurrences :
              LET k == j - OccurrencesBefore(j)
              IN  SubSeq(prod_plan, k, k + Len(ProdSuffix) - 1) = ProdSuffix
        /\ StageOccurrences = {} => prod_plan = stage_plan

\* A returned plan whose argument holds "-stage" more than once.
C2_Witness ==
    /\ fpc = "returned"
    /\ stage_plan # NoStr
    /\ Cardinality(StageOccurrences) >= 2

\* The table of claim C3, in its order.
C3_Table == <<
    [pattern |-> <<"r", "o", "c", "m">>,      label |-> <<"R", "O", "C", "m">>],
    [pattern |-> <<"c", "u", "d", "a">>,      label |-> <<"C", "U", "D", "A">>],
    [pattern |-> <<"c", "p", "u">>,           label |-> <<"C", "P", "U">>],
    [pattern |-> <<"g", "a", "u", "d", "i">>, label |-> <<"G", "a", "u", "d", "i">>],
    [pattern |-> <<"t", "p", "u">>,           label |-> <<"T", "P", "U">>],
    [pattern |-> <<"s", "p", "y", "r", "e">>, label |-> <<"S", "p", "y", "r", "e">>] >>

\* The positions of the lower-case copy of component_name at which pattern
\* i of the table starts.
PatternAt(i) ==
    LET low == str_lower(component_name)
        pat == C3_Table[i].pattern
    IN  { k \in 1..Len(low) :
            /\ k + Len(pat) - 1 <= Len(low)
            /\ SubSeq(low, k, k + Len(pat) - 1) = pat }

\* C3: derive_variant_from_component returns the label of the first
\* pattern, in the order rocm, cuda, cpu, gaudi, tpu, spyre, that the
\* lower-case copy of the name contains, wherever the patterns stand in the
\* name, and "Unknown" when it contains none; it returns for every name.
C3_FirstPatternInTableOrderWins ==
    fpc = "returned" =>
        /\ \A i \in 1..Len(C3_Table) :
              (PatternAt(i) # {} /\ \A j \in 1..(i - 1) : PatternAt(j) = {})
                  => variant_out = C3_Table[i].label
        /\ (\A i \in 1..Len(C3_Table) : PatternAt(i) = {})
                  => variant_out = Unknown
        /\ variant_out \in
              {C3_Table[i].label : i \in 1..Len(C3_Table)} \cup {Unknown}

\* A returned variant for a name that holds two patterns, the one earlier
\* in the table standing later in the name and written in mixed case.
C3_Witness ==
    /\ fpc = "returned"
    /\ component_name # NoStr
    /\ \E i, j \in 1..Len(C3_Table) :
          /\ i < j
          /\ PatternAt(i) # {} /\ PatternAt(j) # {}
          /\ MinOf(PatternAt(i)) > MinOf(PatternAt(j))
          /\ \A h \in 1..(i - 1) : PatternAt(h) = {}
          /\ variant_out = C3_Table[i].label
          /\ str_lower(component_name) # component_name

\* C8: generate_release_name(component, version) is component, "-", the
\* version with every "." turned into "-", then "-prod-1"; the component is
\* copied as it is, dots included, and a name generated before changes
\* nothing.
C8_ReleaseNameShape ==
    calls > 0 =>
        LET c == Len(nm_component)
            v == Len(nm_version)
        IN  /\ Len(release_name) = c + 1 + v + Len(ProdOne)
            /\ \A i \in 1..c : release_name[i] = nm_component[i]
            /\ release_name[c + 1] = "-"
            /\ \A i \in 1..v :
                  release_name[c + 1 + i] =
                      IF nm_version[i] = "." THEN "-" ELSE nm_version[i]
            /\ SubSeq(release_name, c + v + 2, c + v + 1 + Len(ProdOne)) = ProdOne
            /\ calls > 1 => release_name = prev_name

\* A second call, with a component that holds a dot and a version that
\* holds two.
C8_Witness ==
    /\ calls = 2
    /\ \E i \in 1..Len(nm_component) : nm_component[i] = "."
    /\ Cardinality({ i \in 1..Len(nm_version) : nm_version[i] = "." }) >= 2
    /\ prev_name # NoStr

(***************************************************************************)
(* Claims about apply_template_substitutions                               *)
(***************************************************************************)
VersionField == <<LBrace>> \o VersionName \o <<RBrace>>
VariantField == <<LBrace>> \o VariantName \o <<RBrace>>
AcceleratorField ==
    <<LBrace, "a", "c", "c", "e", "l", "e", "r", "a", "t", "o", "r", RBrace>>

StartsWith(s, pre) == Len(s) >= Len(pre) /\ SubSeq(s, 1, Len(pre)) = pre
Drop(s, n) == SubSeq(s, n + 1, Len(s))
HasBrace(s) == \E i \in 1..Len(s) : s[i] \in {LBrace, RBrace}

\* s with each {version} turned into v and each {variant} into a, every
\* other character kept.
RECURSIVE FieldsReplaced(_, _, _)
FieldsReplaced(s, v, a) ==
    IF s = << >> THEN << >>
    ELSE IF StartsWith(s, VersionField)
         THEN v \o FieldsReplaced(Drop(s, Len(VersionField)), v, a)
    ELSE IF StartsWith(s, VariantField)
         THEN a \o FieldsReplaced(Drop(s, Len(VariantField)), v, a)
    ELSE <<Head(s)>> \o FieldsReplaced(Tail(s), v, a)

\* Every brace of s belongs to a {version} or a {variant}.
OnlyFieldBraces(s) == ~HasBrace(FieldsReplaced(s, << >>, << >>))

\* s holds one of the placeholders the claims call recognized.
HasPlaceholder(s) ==
    \E f \in {VersionField, VariantField, AcceleratorField} :
        \E i \in 1..Len(s) : StartsWith(Drop(s, i - 1), f)

\* What is left of s once the doubled braces and the {version} and
\* {variant} fields are taken out, from the left.
RECURSIVE Stripped(_)
Stripped(s) ==
    IF s = << >> THEN << >>
    ELSE IF StartsWith(s, <<LBrace, LBrace>>) \/ StartsWith(s, <<RBrace, RBrace>>)
         THEN Stripped(Drop(s, 2))
    ELSE IF StartsWith(s, VersionField) THEN Stripped(Drop(s, Len(VersionField)))
    ELSE IF StartsWith(s, VariantField) THEN Stripped(Drop(s, Len(VariantField)))
    ELSE <<Head(s)>> \o Stripped(Tail(s))

\* s is a format string of fields {version} and {variant} only, its other
\* braces doubled.
WellFormed(s) == ~HasBrace(Stripped(s))

\* The names between a "{" and the next "}" of s with no brace between.
FieldNames(s) ==
    { SubSeq(s, i + 1, j - 1) : <<i, j>> \in
        { p \in (1..Len(s)) \X (1..Len(s)) :
            /\ p[1] < p[2]
            /\ s[p[1]] = LBrace /\ s[p[2]] = RBrace
            /\ \A m \in (p[1] + 1)..(p[2] - 1) : s[m] \notin {LBrace, RBrace} } }

\* The texts of the str nodes of a tree that are items or values (not keys).
RECURSIVE StringLeaves(_)
StringLeaves(T) ==
    IF T.t = "str" THEN {T.s}
    ELSE UNION { StringLeaves(T.kids[i]) : i \in 1..Len(T.kids) }

\* R has the shape of T, and leaf by leaf what the amended C4 asks.
RECURSIVE Substituted(_, _, _, _)
Substituted(T, R, v, a) ==
    /\ R.t = T.t
    /\ R.keys = T.keys
    /\ Len(R.kids) = Len(T.kids)
    /\ \A i \in 1..Len(T.kids) : Substituted(T.kids[i], R.kids[i], v, a)
    /\ IF T.t = "str"
       THEN /\ ~HasBrace(T.s) => R.s = T.s
            /\ OnlyFieldBraces(T.s) => R.s = FieldsReplaced(T.s, v, a)
            /\ ~HasPlaceholder(T.s) =>
                  R.s = str_replace(str_replace(T.s, <<LBrace, LBrace>>, <<LBrace>>),
                                    <<RBrace, RBrace>>, <<RBrace>>)
       ELSE R.s = T.s /\ R.n = T.n

\* R has the shape of T, and leaf by leaf what C4 as stated asks.
RECURSIVE SubstitutedAsStated(_, _, _, _)
SubstitutedAsStated(T, R, v, a) ==
    /\ R.t = T.t
    /\ R.keys = T.keys
    /\ Len(R.kids) = Len(T.kids)
    /\ \A i \in 1..Len(T.kids) : SubstitutedAsStated(T.kids[i], R.kids[i], v, a)
    /\ IF T.t = "str"
       THEN /\ HasPlaceholder(T.s) => R.s = FieldsReplaced(T.s, v, a)
            /\ ~HasPlaceholder(T.s) => R.s = T.s
       ELSE R.s = T.s /\ R.n = T.n

ResultTree(i) == tree_of(heap, results[i].a)

\* C4 (as stated): the returned tree has the shape of T, every string leaf
\* has its recognized placeholders replaced, every string leaf without a
\* placeholder is unchanged, every other leaf is the same value.
C4_LeavesWithoutPlaceholderUnchanged ==
    \A i \in 1..Len(results) :
        results[i].ok =>
            SubstitutedAsStated(template0, ResultTree(i), targs.version,
                                targs.variant)

\* C4 (amended): whenever apply_template_substitutions returns, the
\* returned tree has the shape of T (same keys in the same order, same
\* lengths and order, same nesting); a string leaf that holds no brace is
\* unchanged; a string leaf whose braces all belong to {version} or
\* {variant} has each of them replaced by its value and the rest kept; a
\* string leaf without placeholder has each doubled brace turned into a
\* single one; every other leaf is the same value.
C4_ShapeKeptLeavesFormatted ==
    \A i \in 1..Len(results) :
        results[i].ok =>
            Substituted(template0, ResultTree(i), targs.version, targs.variant)

\* A returned call on a dict of two values, one of them a string leaf that
\* holds a placeholder and comes back changed.
C4_Witness ==
    /\ Len(results) >= 1 /\ results[1].ok
    /\ template0.t = "dict" /\ Len(template0.kids) = 2
    /\ \E i \in 1..2 :
          /\ template0.kids[i].t = "str"
          /\ OnlyFieldBraces(template0.kids[i].s)
          /\ ResultTree(1).kids[i].s # template0.kids[i].s
    /\ \E i \in 1..2 : template0.kids[i].t # "str"

\* C5 (as stated): the call fails exactly when a string leaf holds a
\* placeholder named otherwise than version, accelerator or variant.
C5_FailsOnlyOnUnrecognizedName ==
    \A i \in 1..Len(results) :
        ~results[i].ok <=>
            \E s \in StringLeaves(template0) :
                \E name \in FieldNames(s) :
                    name \notin {VersionName, VariantName,
                                 SubSeq(AcceleratorField, 2, Len(AcceleratorField) - 1)}

\* C5 (amended): the call fails with a formatting error (KeyError,
\* IndexError or ValueError), and returns no tree, exactly when some string
\* leaf is not a format string of {version} and {variant} fields: it holds
\* a field of another name, {accelerator} included, or a brace that is
\* neither doubled nor part of a field.  A leaf with such a field is never
\* passed through.
C5_FailsExactlyOnIllFormedLeaf ==
    \A i \in 1..Len(results) :
        /\ ~results[i].ok <=> \E s \in StringLeaves(template0) : ~WellFormed(s)
        /\ ~results[i].ok =>
              /\ results[i].a = 0
              /\ results[i].err \in {"KeyError", "IndexError", "ValueError"}
        /\ results[i].ok => results[i].a \in 1..Len(heap)

\* A call that raised KeyError on a template whose only ill-formed leaf is
\* {accelerator}, below the root.
C5_Witness ==
    /\ Len(results) >= 1
    /\ ~results[1].ok /\ results[1].err = "KeyError"
    /\ template0.t \in {"list", "dict"}
    /\ AcceleratorField \in StringLeaves(template0)
    /\ \A s \in StringLeaves(template0) : s # AcceleratorField => WellFormed(s)

\* The heap as the template was loaded into it.
LoadedHeap == construct(<< >>, template0).h

\* C10: after every call, returned or failed, every object of T is what it
\* was; a returned tree shares no list and no dict with T; and two calls
\* with the same template, version and variant end the same way, with
\* equal trees.
C10_Pure ==
    /\ \A a \in 1..Len(LoadedHeap) : heap[a] = LoadedHeap[a]
    /\ tree_of(heap, template) = template0
    /\ \A i \in 1..Len(results) :
          results[i].ok =>
              \A a \in reachable(heap, results[i].a) \cap reachable(heap, template) :
                  heap[a].t \notin {"list", "dict"}
    /\ \A i, j \in 1..Len(results) :
          /\ results[i].ok = results[j].ok
          /\ results[i].err = results[j].err
          /\ results[i].ok => ResultTree(i) = ResultTree(j)

\* Two returned calls on a template with a list or dict below its root and
\* a leaf that both results share with it, each result a new object.
C10_Witness ==
    /\ Len(results) = 2 /\ results[1].ok /\ results[2].ok
    /\ results[1].a # results[2].a
    /\ \E i \in 1..Len(template0.kids) : template0.kids[i].t \in {"list", "dict"}
    /\ reachable(heap, results[1].a) \cap reachable(heap, template) # {}
    /\ results[1].a # template /\ results[2].a # template

(***************************************************************************)
(* Claims about the stage-release workflow                                 *)
(***************************************************************************)
\* The documents the run has emitted, to stdout or to the output file.
Emitted == { stdout[i] : i \in 1..Len(stdout) } \cup { out_file[i] : i \in 1..Len(out_file) }

ErrorLines ==
    { "Error: Component label not found in stage release",
      "Error: Snapshot not found in stage release spec",
      "Error: Invalid YAML in template: ",
      "Error running kubectl: ",
      "Traceback (most recent call last)" }

WarningLine == "Warning: Release notes template not found at "

\* The fetched object has no component label, or no spec.snapshot, or an
\* empty one.
LacksComponentOrSnapshot ==
    /\ stage_release.fetched
    /\ \/ falsy(stage_release.component)
       \/ falsy(stage_release.snapshot)

\* C1: once a stage release without component label or without
\* spec.snapshot is fetched, the run goes on to end with exit code 1, an
\* error message being the last thing it wrote to stderr; it never reaches
\* the output step, writes no file and prints nothing to stdout.
C1_MissingFieldIsFatal ==
    LacksComponentOrSnapshot =>
        /\ pc \in {"load", "generate", "exit"}
        /\ pc # "exit" => exit_code = -1 /\ ENABLED Next
        /\ pc = "exit" =>
              /\ exit_code = 1
              /\ stderr # << >>
              /\ stderr[Len(stderr)][1] \in ErrorLines
        /\ prod_release = NoDoc
        /\ stdout = << >> /\ out_file = << >>

\* A run asked to write a file, ended by the missing snapshot of an object
\* that has its component label.
C1_Witness ==
    /\ pc = "exit" /\ exit_code = 1
    /\ stage_release.fetched
    /\ ~falsy(stage_release.component)
    /\ stage_release.has_spec /\ stage_release.snapshot = Absent
    /\ stage_release.releasePlan # Absent
    /\ args.output = "release.yaml"
    /\ stderr[Len(stderr)][1] = "Error: Snapshot not found in stage release spec"

\* C6: an emitted document holds spec.data.releaseNotes exactly when a
\* template was loaded from the template path, whatever the document that
\* was loaded; when it holds no releaseNotes it has no data key at all, and
\* the warning was written to stderr before.
C6_ReleaseNotesIffTemplateLoaded ==
    \A doc \in Emitted :
        /\ ("data" \in { doc.spec.keys[i] : i \in 1..Len(doc.spec.keys) }
              /\ doc.spec.data.keys = <<"releaseNotes">>)
           <=> template_file.kind = "yaml"
        /\ "data" \notin { doc.spec.keys[i] : i \in 1..Len(doc.spec.keys) } =>
              \E i \in 1..Len(stderr) : stderr[i][1] = WarningLine

\* The one invocation of kubectl, when it has been made.
TheCall == kubectl_calls[1]

\* C7: kubectl is invoked once in every run, never again, and before the
\* template is loaded and before a document is assembled or emitted; when
\* it exits with a non-zero status the run ends there with a non-zero exit
\* code, kubectl's stderr being all that was printed, no template loaded,
\* no document assembled, nothing written.
C7_OneInvocationFailFast ==
    /\ Len(kubectl_calls) <= 1
    /\ pc # "fetch" => Len(kubectl_calls) = 1
    /\ (template_file # NoFile \/ heap # << >> \/ prod_release # NoDoc
          \/ Emitted # {})
         => Len(kubectl_calls) = 1 /\ TheCall.kind = "completed" /\ TheCall.rc = 0
    /\ (Len(kubectl_calls) = 1 /\ TheCall.kind = "completed" /\ TheCall.rc # 0)
         => /\ pc = "exit"
            /\ exit_code # 0 /\ exit_code # -1
            /\ stderr = << <<"Error running kubectl: ", TheCall.stderr>> >>
            /\ template_file = NoFile /\ release_notes_template = 0
            /\ heap = << >>
            /\ prod_release = NoDoc
            /\ stdout = << >> /\ out_file = << >>

\* A run that kubectl ended with a non-zero status, its stderr printed.
C7_Witness ==
    /\ Len(kubectl_calls) = 1
    /\ TheCall.kind = "completed" /\ TheCall.rc = 1
    /\ TheCall.stderr = "Forbidden"
    /\ pc = "exit" /\ exit_code = 1
    /\ stderr = << <<"Error running kubectl: ", "Forbidden">> >>

\* C9: every emitted document is a Release of apiVersion
\* appstudio.redhat.com/v1alpha1 with metadata {name, namespace} and spec
\* {gracePeriodDays, releasePlan, snapshot, optional data {releaseNotes}},
\* whose namespace, name, snapshot and releasePlan are strings, not null: a
\* stage release without component label, namespace, snapshot or
\* releasePlan leads to no document.
C9_EmittedDocumentHasRequiredStrings ==
    \A doc \in Emitted :
        /\ doc.apiVersion = "appstudio.redhat.com/v1alpha1"
        /\ doc.kind = "Release"
        /\ { doc.metadata.keys[i] : i \in 1..Len(doc.metadata.keys) }
              = {"name", "namespace"}
        /\ { doc.spec.keys[i] : i \in 1..Len(doc.spec.keys) } \ {"data"}
              = {"gracePeriodDays", "releasePlan", "snapshot"}
        /\ doc.metadata.namespace.t = "str"
        /\ doc.metadata.name.t = "str"
        /\ doc.spec.snapshot.t = "str"
        /\ doc.spec.releasePlan.t = "str"
        /\ stage_release.component.t = "str"
        /\ stage_release.namespace.t = "str"
        /\ stage_release.snapshot.t = "str"
        /\ stage_release.releasePlan.t = "str"

=============================================================================
